---- MODULE Spec2Model ----
(***************************************************************************)
(* Model of csv_server.py: the two tools read_csv (inspect) and            *)
(* aggregate_csv (aggregate).  A call is one atomic step from the file     *)
(* system and the arguments to the returned envelope.  The pandas, pathlib *)
(* and json calls the handlers make are modelled by what they do on the    *)
(* values a CSV file can hold.                                             *)
(*                                                                         *)
(* Values are triples <<tag, n, d>>.  A string is a sequence of one-       *)
(* character strings (so split, strip and lower are computed); the text    *)
(* of a CSV cell is its rank in code-point order ("A" = 1 < "B" = 2).      *)
(* A float is the exact rational n/d, "sqrt" is the square root of n/d.    *)
(* Left out of the envelopes: size_bytes, last_modified, the metadata      *)
(* timestamp and pandas_version, and the byte counts of memory_usage,      *)
(* which depend on the clock and the host and on nothing a handler checks. *)
(***************************************************************************)
EXTENDS Integers, Sequences, FiniteSets, TLC

VARIABLES fs, req, resp, calls

vars == <<fs, req, resp, calls>>

(***************************************************************************)
(* Bounds                                                                  *)
(***************************************************************************)
MaxLen == 5

MaxRows == 3

MaxKeyRows == 3

MaxInspectRows == 2

(***************************************************************************)
(* Values                                                                  *)
(***************************************************************************)
\* cells of the CSV text
RawEmpty == <<"empty", 0, 1>>

RawInt(n) == <<"int", n, 1>>

RawStr(k) == <<"str", k, 1>>

RawBool(b) == <<"bool", b, 1>>

\* an integer 2^63 + k: beyond int64, within uint64
RawBig(k) == <<"big", k, 1>>

\* cells of a DataFrame and numpy scalars
NaN == <<"nan", 0, 1>>

Int64(n) == <<"int64", n, 1>>

Str(k) == <<"str", k, 1>>

\* the concatenation of strings that sum gives on an object column
StrConcat == <<"str", 0, 1>>

\* a reduction that raised TypeError
Raised == <<"raise", 0, 1>>

RECURSIVE GCD(_, _)
GCD(a, b) == IF b = 0 THEN a ELSE GCD(b, a % b)

Float64(n, d) == LET g == GCD(n, d) IN <<"float64", n \div g, d \div g>>

Sqrt(n, d) == LET g == GCD(n, d) IN <<"sqrt", n \div g, d \div g>>

(***************************************************************************)
(* pandas.read_csv: dtype inference and parsing                            *)
(***************************************************************************)
ColumnOf(rows, j) == [i \in 1..Len(rows) |-> rows[i][j]]

TagsOf(col) == {col[i][1] : i \in 1..Len(col)}

InferDtype(col) ==
    LET tags == TagsOf(col) IN
    IF tags = {} THEN "object"
    ELSE IF tags = {"empty"} THEN "float64"
    ELSE IF "str" \in tags THEN "object"
    ELSE IF "bool" \in tags THEN (IF tags = {"bool"} THEN "bool" ELSE "object")
    ELSE IF "big" \in tags THEN (IF "empty" \in tags THEN "float64" ELSE "uint64")
    ELSE IF "empty" \in tags THEN "float64"
    ELSE "int64"

ConvertCell(dtype, raw) ==
    IF raw[1] = "empty" THEN NaN
    ELSE IF dtype = "int64" THEN Int64(raw[2])
    ELSE IF dtype = "float64" /\ raw[1] = "int" THEN Float64(raw[2], 1)
    ELSE IF dtype = "float64" THEN <<"float64big", raw[2], 1>>
    ELSE IF dtype = "uint64" /\ raw[1] = "big" THEN <<"uint64", raw[2], 1>>
    ELSE IF dtype = "uint64" THEN <<"uint64lo", raw[2], 1>>
    ELSE IF dtype = "bool" THEN <<"bool", raw[2], 1>>
    ELSE raw

ParseTable(header, rows) ==
    LET dtypes == [j \in 1..Len(header) |-> InferDtype(ColumnOf(rows, j))] IN
    [columns |-> header,
     dtypes  |-> dtypes,
     data    |-> [i \in 1..Len(rows) |->
                    [j \in 1..Len(header) |-> ConvertCell(dtypes[j], rows[i][j])]]]

\* pd.read_csv(path, encoding=...): a DataFrame, or the exception it raises
pd_read_csv(file, encoding) ==
    IF file.kind = "missing" THEN [raise |-> "FileNotFoundError"]
    ELSE IF file.kind = "dir" THEN [raise |-> "IsADirectoryError"]
    ELSE IF file.kind = "undecodable" THEN [raise |-> "UnicodeDecodeError"]
    ELSE IF file.kind = "malformed" THEN [raise |-> "ParserError"]
    ELSE IF file.kind = "empty" THEN [raise |-> "EmptyDataError"]
    ELSE [raise |-> "", df |-> ParseTable(file.header, file.rows)]

(***************************************************************************)
(* DataFrame helpers                                                       *)
(***************************************************************************)
ColIndex(df, name) == CHOOSE j \in 1..Len(df.columns) : df.columns[j] = name

HasColumn(df, name) == \E j \in 1..Len(df.columns) : df.columns[j] = name

Column(df, name) == ColumnOf(df.data, ColIndex(df, name))

Dtype(df, name) == df.dtypes[ColIndex(df, name)]

IsNotNull(c) == c[1] # "nan"

NonNull(vals) == SelectSeq(vals, IsNotNull)

NullCount(vals) == Len(vals) - Len(NonNull(vals))

NUnique(vals) == Cardinality({vals[i] : i \in {k \in 1..Len(vals) : IsNotNull(vals[k])}})

RECURSIVE SumN(_)
SumN(vals) == IF vals = <<>> THEN 0 ELSE vals[1][2] + SumN(Tail(vals))

RECURSIVE SumSq(_)
SumSq(vals) == IF vals = <<>> THEN 0 ELSE vals[1][2] * vals[1][2] + SumSq(Tail(vals))

MinN(vals) == CHOOSE m \in {vals[i][2] : i \in 1..Len(vals)} :
                 \A i \in 1..Len(vals) : m <= vals[i][2]

MaxN(vals) == CHOOSE m \in {vals[i][2] : i \in 1..Len(vals)} :
                 \A i \in 1..Len(vals) : m >= vals[i][2]

RECURSIVE Insert(_, _)
Insert(x, s) ==
    IF s = <<>> THEN <<x>>
    ELSE IF x <= s[1] THEN <<x>> \o s
    ELSE <<s[1]>> \o Insert(x, Tail(s))

RECURSIVE SortN(_)
SortN(vals) == IF vals = <<>> THEN <<>> ELSE Insert(vals[1][2], SortN(Tail(vals)))

\* a scalar of the column's own dtype
Scalar(dtype, n) ==
    IF dtype = "int64" THEN Int64(n)
    ELSE IF dtype = "object" THEN Str(n)
    ELSE IF dtype = "float64" THEN Float64(n, 1)
    ELSE <<dtype, n, 1>>

(***************************************************************************)
(* str.lower, str.split(","), str.strip                                    *)
(***************************************************************************)
UpperCase == <<"A", "B", "C", "D", "E", "F", "G", "H", "I", "J", "K", "L", "M",
               "N", "O", "P", "Q", "R", "S", "T", "U", "V", "W", "X", "Y", "Z">>

LowerCase == <<"a", "b", "c", "d", "e", "f", "g", "h", "i", "j", "k", "l", "m",
               "n", "o", "p", "q", "r", "s", "t", "u", "v", "w", "x", "y", "z">>

LowerChar(c) ==
    IF \E i \in 1..Len(UpperCase) : UpperCase[i] = c
    THEN LowerCase[CHOOSE i \in 1..Len(UpperCase) : UpperCase[i] = c]
    ELSE c

Lower(s) == [i \in 1..Len(s) |-> LowerChar(s[i])]

Whitespace == {" ", "\t", "\n"}

RECURSIVE LStrip(_)
LStrip(s) == IF s # <<>> /\ s[1] \in Whitespace THEN LStrip(Tail(s)) ELSE s

RECURSIVE RStrip(_)
RStrip(s) ==
    IF s # <<>> /\ s[Len(s)] \in Whitespace THEN RStrip(SubSeq(s, 1, Len(s) - 1)) ELSE s

Strip(s) == RStrip(LStrip(s))

RECURSIVE Split(_)
Split(s) ==
    IF \A i \in 1..Len(s) : s[i] # "," THEN <<s>>
    ELSE LET i == CHOOSE k \in 1..Len(s) :
                      s[k] = "," /\ \A j \in 1..(k - 1) : s[j] # ","
         IN <<SubSeq(s, 1, i - 1)>> \o Split(SubSeq(s, i + 1, Len(s)))

RECURSIVE StripAll(_)
StripAll(parts) ==
    IF parts = <<>> THEN <<>> ELSE <<Strip(parts[1])>> \o StripAll(Tail(parts))

NotEmpty(s) == s # <<>>

\* [col.strip() for col in group_by.split(",") if col.strip()]
GroupColumns(group_by) == SelectSeq(StripAll(Split(group_by)), NotEmpty)

(***************************************************************************)
(* Series.agg / GroupBy.agg with a function name (nulls are skipped)       *)
(***************************************************************************)
FnSum == <<"s", "u", "m">>

FnMean == <<"m", "e", "a", "n">>

FnMedian == <<"m", "e", "d", "i", "a", "n">>

FnMin == <<"m", "i", "n">>

FnMax == <<"m", "a", "x">>

FnStd == <<"s", "t", "d">>

FnCount == <<"c", "o", "u", "n", "t">>

valid_agg_functions == <<FnSum, FnMean, FnMedian, FnMin, FnMax, FnStd, FnCount>>

Median(v) ==
    LET s == SortN(v)
        n == Len(v)
    IN IF n % 2 = 1 THEN Float64(s[(n + 1) \div 2], 1)
       ELSE Float64(s[n \div 2] + s[n \div 2 + 1], 2)

\* sample standard deviation (ddof = 1)
Std(v) ==
    LET n == Len(v)
        num == n * SumSq(v) - SumN(v) * SumN(v)
    IN IF n < 2 THEN NaN
       ELSE IF num = 0 THEN Float64(0, 1)
       ELSE Sqrt(num, n * (n - 1))

\* mutant: count counts rows, nulls included (size)
Reduce_CountRows(fn, dtype, vals) ==
    LET v == NonNull(vals)
        n == Len(v)
    IN IF fn = FnCount THEN Int64(Len(vals))
       ELSE IF fn = FnSum
            THEN IF dtype = "object" /\ n > 0 THEN StrConcat
                 ELSE IF dtype = "float64" THEN Float64(SumN(v), 1)
                 ELSE Int64(SumN(v))
       ELSE IF n = 0 THEN NaN
       ELSE IF fn = FnMin THEN Scalar(dtype, MinN(v))
       ELSE IF fn = FnMax THEN Scalar(dtype, MaxN(v))
       ELSE IF dtype = "object" THEN Raised
       ELSE IF fn = FnMean THEN Float64(SumN(v), n)
       ELSE IF fn = FnMedian THEN Median(v)
       ELSE Std(v)

\* mutant: sum of no values is NaN (min_count=1)
Reduce_SumMinCount(fn, dtype, vals) ==
    LET v == NonNull(vals)
        n == Len(v)
    IN IF fn = FnCount THEN Int64(n)
       ELSE IF fn = FnSum
            THEN IF n = 0 THEN NaN
                 ELSE IF dtype = "object" /\ n > 0 THEN StrConcat
                 ELSE IF dtype = "float64" THEN Float64(SumN(v), 1)
                 ELSE Int64(SumN(v))
       ELSE IF n = 0 THEN NaN
       ELSE IF fn = FnMin THEN Scalar(dtype, MinN(v))
       ELSE IF fn = FnMax THEN Scalar(dtype, MaxN(v))
       ELSE IF dtype = "object" THEN Raised
       ELSE IF fn = FnMean THEN Float64(SumN(v), n)
       ELSE IF fn = FnMedian THEN Median(v)
       ELSE Std(v)

Reduce(fn, dtype, vals) ==
    LET v == NonNull(vals)
        n == Len(v)
    IN IF fn = FnCount THEN Int64(n)
       ELSE IF fn = FnSum
            THEN IF dtype = "object" /\ n > 0 THEN StrConcat
                 ELSE IF dtype = "float64" THEN Float64(SumN(v), 1)
                 ELSE Int64(SumN(v))
       ELSE IF n = 0 THEN NaN
       ELSE IF fn = FnMin THEN Scalar(dtype, MinN(v))
       ELSE IF fn = FnMax THEN Scalar(dtype, MaxN(v))
       ELSE IF dtype = "object" THEN Raised
       ELSE IF fn = FnMean THEN Float64(SumN(v), n)
       ELSE IF fn = FnMedian THEN Median(v)
       ELSE Std(v)

\* float(x): a Python float, or the exception
Float(v) ==
    IF v[1] = "raise" THEN v
    ELSE IF v[1] = "str" THEN <<"raise", 1, 1>>
    ELSE IF v[1] \in {"float64", "sqrt", "nan"} THEN <<IF v[1] = "float64" THEN "float" ELSE v[1], v[2], v[3]>>
    ELSE <<"float", v[2], 1>>

ExcName(v) == IF v[2] = 0 THEN "TypeError" ELSE "ValueError"

(***************************************************************************)
(* DataFrame.groupby (sort=True, dropna=True), reset_index, merge          *)
(***************************************************************************)
KeyOf(df, group_columns, i) ==
    [k \in 1..Len(group_columns) |-> df.data[i][ColIndex(df, group_columns[k])]]

HasNullKey(key) == \E k \in 1..Len(key) : key[k][1] = "nan"

\* ascending, column by column
KeyLess(a, b) ==
    \E k \in 1..Len(a) : a[k][2] < b[k][2] /\ \A j \in 1..(k - 1) : a[j] = b[j]

\* mutant: descending order
RECURSIVE SortKeys_Descending(_)
SortKeys_Descending(S) ==
    IF S = {} THEN <<>>
    ELSE LET m == CHOOSE x \in S : \A y \in S : y = x \/ KeyLess(y, x)
         IN <<m>> \o SortKeys_Descending(S \ {m})

RECURSIVE SortKeys(_)
SortKeys(S) ==
    IF S = {} THEN <<>>
    ELSE LET m == CHOOSE x \in S : \A y \in S : y = x \/ KeyLess(x, y)
         IN <<m>> \o SortKeys(S \ {m})

\* dropna=True: a row with a null in a group-by column is in no group
GroupedRows(df, group_columns) ==
    {i \in 1..Len(df.data) : ~HasNullKey(KeyOf(df, group_columns, i))}

GroupKeys(df, group_columns) ==
    SortKeys({KeyOf(df, group_columns, i) : i \in GroupedRows(df, group_columns)})

RowsOfKey(df, group_columns, key) ==
    {i \in GroupedRows(df, group_columns) : KeyOf(df, group_columns, i) = key}

RECURSIVE PickRows(_, _, _)
PickRows(col, S, i) ==
    IF i > Len(col) THEN <<>>
    ELSE (IF i \in S THEN <<col[i]>> ELSE <<>>) \o PickRows(col, S, i + 1)

\* df.groupby(group_columns)[agg_column].agg(agg_function).reset_index()
GroupByAgg(df, group_columns, agg_column, agg_function) ==
    LET keys == GroupKeys(df, group_columns) IN
    [g \in 1..Len(keys) |->
        [key   |-> keys[g],
         value |-> Reduce(agg_function, Dtype(df, agg_column),
                          PickRows(Column(df, agg_column),
                                   RowsOfKey(df, group_columns, keys[g]), 1))]]

\* df.groupby(group_columns).size().reset_index(name="group_size")
GroupBySize(df, group_columns) ==
    LET keys == GroupKeys(df, group_columns) IN
    [g \in 1..Len(keys) |->
        [key |-> keys[g],
         group_size |-> Cardinality(RowsOfKey(df, group_columns, keys[g]))]]

RECURSIVE MergeRow(_, _)
MergeRow(l, right) ==
    IF right = <<>> THEN <<>>
    ELSE (IF right[1].key = l.key
          THEN <<[key |-> l.key, value |-> l.value, group_size |-> right[1].group_size]>>
          ELSE <<>>) \o MergeRow(l, Tail(right))

\* agg_result.merge(group_counts, on=group_columns): inner join in left order
RECURSIVE Merge(_, _)
Merge(left, right) ==
    IF left = <<>> THEN <<>> ELSE MergeRow(left[1], right) \o Merge(Tail(left), right)

\* reset_index cannot insert a column whose name is already there
ResetIndexFails(group_columns, name) ==
    \/ \E k \in 1..Len(group_columns) : group_columns[k] = name
    \/ \E j, k \in 1..Len(group_columns) : j # k /\ group_columns[j] = group_columns[k]

(***************************************************************************)
(* json.dumps(response, default=serialize_number)                          *)
(***************************************************************************)
\* to_dict / tolist box numpy scalars into Python values
Box(v) ==
    IF v[1] \in {"int64", "uint64", "uint64lo"} THEN <<"int", v[2], v[3]>>
    ELSE IF v[1] \in {"float64", "float64big"} THEN <<"float", v[2], v[3]>>
    ELSE v

IsNative(v) == v[1] \in {"int", "float", "sqrt", "nan", "str", "bool", "None"}

\* the default hook: only reached for a value json cannot encode itself
serialize_number(obj) ==
    IF obj[1] \in {"int64", "uint64", "uint64lo"} THEN <<"int", obj[2], obj[3]>>
    ELSE IF obj[1] \in {"float64", "float64big"} THEN <<"float", obj[2], obj[3]>>
    ELSE IF obj[1] \in {"NaT", "NA"} THEN <<"None", 0, 1>>
    ELSE Raised

\* the JSON token of a Python value; a float nan is written as the token NaN
JsonToken(v) ==
    IF v[1] = "nan" THEN <<"json_NaN", 0, 1>>
    ELSE IF v[1] = "None" THEN <<"json_null", 0, 1>>
    ELSE IF v[1] = "int" THEN <<"json_int", v[2], v[3]>>
    ELSE IF v[1] = "float" THEN <<"json_float", v[2], v[3]>>
    ELSE IF v[1] = "sqrt" THEN <<"json_float_sqrt", v[2], v[3]>>
    ELSE IF v[1] = "str" THEN <<"json_str", v[2], v[3]>>
    ELSE <<"json_bool", v[2], v[3]>>

JsonEncode(v) ==
    IF IsNative(v) THEN JsonToken(v)
    ELSE IF serialize_number(v)[1] = "raise" THEN Raised
    ELSE JsonToken(serialize_number(v))

JsonRow(row) == [j \in 1..Len(row) |-> JsonEncode(row[j])]

(***************************************************************************)
(* Envelopes                                                               *)
(***************************************************************************)
Ret(envelope) == [kind |-> "return", value |-> envelope]

Raise(exc) == [kind |-> "raise", exc |-> exc]

ErrorEnvelope(text, args) ==
    [success |-> FALSE, error |-> [text |-> text, args |-> args]]

NotExistText == "File '{file_path}' does not exist"

NotAFileText == "File '{file_path}' is not a file"

NoGroupByText == "No valid group by columns provided"

ColumnsMissingText == "Columns {missing_cols} not found in file '{file_path}'"

ColumnMissingText == "Column '{agg_column}' not found in file '{file_path}'"

InvalidFunctionText == "Invalid aggregation function '{agg_function}'. Valid functions are: {valid_agg_functions}"

ProcessingText == "Error processing file '{file_path}': {str(e)}"

\* except Exception as e: the error envelope with exception_type
ExceptionEnvelope(file_path, exc) ==
    [success |-> FALSE,
     error |-> [text |-> ProcessingText, args |-> <<file_path, exc>>],
     exception_type |-> exc]

\* mutant: the handler catches only (ValueError, TypeError)
CatchException_Narrow(outcome, file_path) ==
    IF outcome.ret.kind = "raise" /\ outcome.ret.exc \in {"ValueError", "TypeError"}
    THEN [ret |-> Ret(ExceptionEnvelope(file_path, outcome.ret.exc)), calls |-> outcome.calls]
    ELSE outcome

\* the try/except around each handler body
CatchException(outcome, file_path) ==
    IF outcome.ret.kind = "raise"
    THEN [ret |-> Ret(ExceptionEnvelope(file_path, outcome.ret.exc)), calls |-> outcome.calls]
    ELSE outcome

(***************************************************************************)
(* pathlib and the load with the encoding fallback                         *)
(***************************************************************************)
exists(file) == file.kind # "missing"

is_file(file) == file.kind \notin {"missing", "dir"}

\* mutant: the is_file check is left out
PathCheck_NoIsFile(file, file_path) ==
    IF ~exists(file)
    THEN [done |-> TRUE, ret |-> Ret(ErrorEnvelope(NotExistText, <<file_path>>)),
          calls |-> <<"exists">>]
    ELSE [done |-> FALSE, ret |-> Ret(<<>>), calls |-> <<"exists">>]

\* the path checks both handlers start with: an outcome, or "go on"
PathCheck(file, file_path) ==
    IF ~exists(file)
    THEN [done |-> TRUE, ret |-> Ret(ErrorEnvelope(NotExistText, <<file_path>>)),
          calls |-> <<"exists">>]
    ELSE IF ~is_file(file)
    THEN [done |-> TRUE, ret |-> Ret(ErrorEnvelope(NotAFileText, <<file_path>>)),
          calls |-> <<"exists", "is_file">>]
    ELSE [done |-> FALSE, ret |-> Ret(<<>>), calls |-> <<"exists", "is_file">>]

LoadCsv(file) ==
    LET first == pd_read_csv(file, "utf-8") IN
    IF first.raise = "UnicodeDecodeError"
    THEN [res |-> pd_read_csv(file, "utf-8-sig"),
          calls |-> <<"pd.read_csv", "pd.read_csv">>]
    ELSE [res |-> first, calls |-> <<"pd.read_csv">>]

(***************************************************************************)
(* read_csv                                                                *)
(***************************************************************************)
HeadRows == 5

ColumnNames(df) == {df.columns[j] : j \in 1..Len(df.columns)}

\* df.select_dtypes(include=["int64", "float64"]).columns
NumericColumns(df) ==
    {df.columns[j] : j \in {k \in 1..Len(df.columns) : df.dtypes[k] \in {"int64", "float64"}}}

NumericStats(df) ==
    [col \in NumericColumns(df) |->
        [mean   |-> JsonEncode(Float(Reduce(FnMean, Dtype(df, col), Column(df, col)))),
         median |-> JsonEncode(Float(Reduce(FnMedian, Dtype(df, col), Column(df, col)))),
         min    |-> JsonEncode(Float(Reduce(FnMin, Dtype(df, col), Column(df, col)))),
         max    |-> JsonEncode(Float(Reduce(FnMax, Dtype(df, col), Column(df, col)))),
         std    |-> JsonEncode(Float(Reduce(FnStd, Dtype(df, col), Column(df, col)))),
         null_count |-> NullCount(Column(df, col))]]

ColumnInfo(df) ==
    [col \in ColumnNames(df) |->
        [type          |-> Dtype(df, col),
         null_count    |-> NullCount(Column(df, col)),
         unique_values |-> NUnique(Column(df, col))]]

HeadOf(df) ==
    LET rows == SubSeq(df.data, 1, IF Len(df.data) < HeadRows THEN Len(df.data) ELSE HeadRows)
    IN [i \in 1..Len(rows) |-> JsonRow([j \in 1..Len(rows[i]) |-> Box(rows[i][j])])]

TailRows(df) ==
    LET n == Len(df.data)
        rows == SubSeq(df.data, IF n < HeadRows THEN 1 ELSE n - HeadRows + 1, n)
    IN [i \in 1..Len(rows) |-> JsonRow([j \in 1..Len(rows[i]) |-> Box(rows[i][j])])]

RowsRaise(rows) ==
    \E i \in 1..Len(rows) : \E j \in 1..Len(rows[i]) : rows[i][j][1] = "raise"

InspectResponse(df, file_path) ==
    [success |-> TRUE,
     file_info |-> [path |-> file_path,
                    column_count |-> Len(df.columns),
                    row_count |-> Len(df.data),
                    columns |-> df.columns],
     preview |-> [first_5_rows |-> HeadOf(df), last_5_rows |-> TailRows(df)],
     statistics |-> [numeric_columns |-> NumericStats(df), memory_usage |-> "memory_usage"],
     schema |-> [columns |-> ColumnInfo(df)],
     metadata |-> "metadata"]

read_csv_try(fsv, file_path) ==
    LET file == fsv[file_path]
        check == PathCheck(file, file_path)
    IN IF check.done THEN [ret |-> check.ret, calls |-> check.calls]
       ELSE LET load == LoadCsv(file)
                sofar == check.calls \o load.calls
            IN IF load.res.raise # "" THEN [ret |-> Raise(load.res.raise), calls |-> sofar]
               ELSE LET response == InspectResponse(load.res.df, file_path) IN
                    IF RowsRaise(response.preview.first_5_rows)
                       \/ RowsRaise(response.preview.last_5_rows)
                    THEN [ret |-> Raise("TypeError"), calls |-> sofar \o <<"json.dumps">>]
                    ELSE [ret |-> Ret(response), calls |-> sofar \o <<"json.dumps">>]

read_csv(fsv, file_path) == CatchException(read_csv_try(fsv, file_path), file_path)

(***************************************************************************)
(* aggregate_csv                                                           *)
(***************************************************************************)
IsValidFunction(fn) == \E k \in 1..Len(valid_agg_functions) : valid_agg_functions[k] = fn

\* mutant: only the first absent column is reported
MissingCols_FirstOnly(df, group_columns) ==
    LET Absent(c) == ~HasColumn(df, c)
        all == SelectSeq(group_columns, Absent)
    IN IF all = <<>> THEN <<>> ELSE <<all[1]>>

\* [col for col in group_columns if col not in df.columns]
MissingCols(df, group_columns) ==
    LET Absent(c) == ~HasColumn(df, c) IN SelectSeq(group_columns, Absent)

\* mutant: the target column is checked before the group-by columns
ValidationError_TargetFirst(df, file_path, group_columns, agg_column, agg_function) ==
    IF group_columns = <<>>
    THEN ErrorEnvelope(NoGroupByText, <<>>)
    ELSE IF ~HasColumn(df, agg_column)
    THEN ErrorEnvelope(ColumnMissingText, <<agg_column, file_path>>)
    ELSE IF MissingCols(df, group_columns) # <<>>
    THEN ErrorEnvelope(ColumnsMissingText, <<MissingCols(df, group_columns), file_path>>)
    ELSE IF ~IsValidFunction(agg_function)
    THEN ErrorEnvelope(InvalidFunctionText, <<agg_function, valid_agg_functions>>)
    ELSE [success |-> TRUE]

\* the four checks, in the order of the code; success when all pass
ValidationError(df, file_path, group_columns, agg_column, agg_function) ==
    IF group_columns = <<>>
    THEN ErrorEnvelope(NoGroupByText, <<>>)
    ELSE IF MissingCols(df, group_columns) # <<>>
    THEN ErrorEnvelope(ColumnsMissingText, <<MissingCols(df, group_columns), file_path>>)
    ELSE IF ~HasColumn(df, agg_column)
    THEN ErrorEnvelope(ColumnMissingText, <<agg_column, file_path>>)
    ELSE IF ~IsValidFunction(agg_function)
    THEN ErrorEnvelope(InvalidFunctionText, <<agg_function, valid_agg_functions>>)
    ELSE [success |-> TRUE]

GroupsRaise(groups) == \E g \in 1..Len(groups) : groups[g].value[1] = "raise"

GroupedData(merged) ==
    [g \in 1..Len(merged) |->
        [key        |-> JsonRow([k \in 1..Len(merged[g].key) |-> Box(merged[g].key[k])]),
         value      |-> JsonEncode(Box(merged[g].value)),
         group_size |-> merged[g].group_size]]

AggregateResponse(df, file_path, group_columns, agg_column, agg_function, merged, overall) ==
    [success |-> TRUE,
     file_info |-> [path |-> file_path,
                    total_rows |-> Len(df.data),
                    total_columns |-> Len(df.columns)],
     aggregation |-> [group_by |-> group_columns,
                      agg_function |-> agg_function,
                      agg_column |-> agg_column],
     results |-> [grouped_data |-> GroupedData(merged),
                  overall_statistics |->
                      [total_records |-> Len(df.data),
                       groups_count  |-> Len(merged),
                       overall       |-> [name |-> agg_function,
                                          value |-> JsonEncode(overall)]]],
     metadata |-> [column_types |->
                      [c \in {agg_column} \cup {group_columns[k] : k \in 1..Len(group_columns)}
                          |-> Dtype(df, c)]]]

\* lines 194-239: the aggregation, the overall value and the response
Aggregate(df, file_path, group_columns, agg_column, agg_function) ==
    LET groups  == GroupByAgg(df, group_columns, agg_column, agg_function)
        counts  == GroupBySize(df, group_columns)
        merged  == Merge(groups, counts)
        overall == Float(Reduce(agg_function, Dtype(df, agg_column), Column(df, agg_column)))
    IN IF GroupsRaise(groups) THEN [ret |-> Raise("TypeError"), calls |-> <<"groupby.agg">>]
       ELSE IF ResetIndexFails(group_columns, agg_column)
       THEN [ret |-> Raise("ValueError"), calls |-> <<"groupby.agg">>]
       ELSE IF overall[1] = "raise"
       THEN [ret |-> Raise(ExcName(overall)),
             calls |-> <<"groupby.agg", "groupby.size", "merge", "agg">>]
       ELSE [ret |-> Ret(AggregateResponse(df, file_path, group_columns, agg_column,
                                           agg_function, merged, overall)),
             calls |-> <<"groupby.agg", "groupby.size", "merge", "agg", "json.dumps">>]

aggregate_csv_try(fsv, file_path, group_by, agg_column, agg_function) ==
    LET file == fsv[file_path]
        check == PathCheck(file, file_path)
    IN IF check.done THEN [ret |-> check.ret, calls |-> check.calls]
       ELSE LET load == LoadCsv(file)
                sofar == check.calls \o load.calls
            IN IF load.res.raise # "" THEN [ret |-> Raise(load.res.raise), calls |-> sofar]
               ELSE LET df == load.res.df
                        fn == Lower(agg_function)
                        group_columns == GroupColumns(group_by)
                        error == ValidationError(df, file_path, group_columns, agg_column, fn)
                    IN IF ~error.success THEN [ret |-> Ret(error), calls |-> sofar]
                       ELSE LET out == Aggregate(df, file_path, group_columns, agg_column, fn)
                            IN [ret |-> out.ret, calls |-> sofar \o out.calls]

aggregate_csv(fsv, file_path, group_by, agg_column, agg_function) ==
    CatchException(aggregate_csv_try(fsv, file_path, group_by, agg_column, agg_function),
                   file_path)

(***************************************************************************)
(* The file system and the requests the model draws from                   *)
(***************************************************************************)
SeqsUpTo(S, n) == UNION {[1..k -> S] : k \in 0..n}

DataPath == "data.csv"

DirPath == "reports"

Paths == {DataPath, DirPath}

Missing == [kind |-> "missing"]

Directory == [kind |-> "dir"]

CsvFile(header, rows) == [kind |-> "csv", header |-> header, rows |-> rows]

\* files pd.read_csv cannot load
BrokenFiles == {[kind |-> "undecodable"], [kind |-> "malformed"], [kind |-> "empty"]}

FileSystem(entry) == [p \in Paths |-> IF p = DataPath THEN entry ELSE Directory]

ColR == <<"r">>

ColP == <<"p">>

ColS == <<"s">>

ColX == <<"x">>

ColY == <<"y">>

A == RawStr(1)

B == RawStr(2)

\* region,sales / A,10 / B,20 / A,30
ScenarioRows == <<<<A, RawInt(10)>>, <<B, RawInt(20)>>, <<A, RawInt(30)>>>>

NullRows == <<<<RawEmpty, RawInt(10)>>, <<A, RawEmpty>>>>

MainEntries ==
    {Missing, Directory} \cup BrokenFiles
    \cup {CsvFile(<<ColR, ColS>>, rows) : rows \in {<<>>, ScenarioRows, NullRows}}

\* group_by strings of the main specification
GroupByInputs ==
    {<<>>, <<" ">>, <<",", " ">>, <<"r">>, <<" ", "r", " ">>, <<"x">>, <<"r", ",", "x">>,
     <<"x", ",", "y">>, <<"y", ",", "r", ",", "x">>, <<"r", ",", "r">>}

AggColumnInputs == {ColS, ColX, ColR}

FunctionInputs == {FnSum, FnCount, FnMean, <<"S", "u", "M">>, <<"a", "v", "g">>}

\* every group_by string up to MaxLen characters, for the validation
GroupByChars == {"r", "x", "y", ",", " "}

AllGroupByInputs == SeqsUpTo(GroupByChars, MaxLen)

ValidateEntries ==
    {CsvFile(<<ColR, ColS>>, ScenarioRows), CsvFile(<<ColR, ColS>>, NullRows),
     CsvFile(<<ColR, ColS>>, <<>>),
     CsvFile(<<ColX, ColR, ColS>>, <<<<RawInt(1), A, RawInt(10)>>, <<RawInt(2), B, RawEmpty>>>>)}

\* two-column tables for the aggregation's arithmetic
AggRowSet == {A, B, RawEmpty} \X {RawInt(10), RawInt(20), RawInt(30), RawEmpty}

AggEntries == {CsvFile(<<ColR, ColS>>, rows) : rows \in SeqsUpTo(AggRowSet, MaxRows)}

ValidFunctions == {valid_agg_functions[k] : k \in 1..Len(valid_agg_functions)}

\* three-column tables for grouping by two columns
KeyRowSet == {A, B, RawEmpty} \X {RawInt(1), RawInt(2), RawEmpty} \X {RawInt(10)}

KeyEntries == {CsvFile(<<ColR, ColP, ColS>>, rows) : rows \in SeqsUpTo(KeyRowSet, MaxKeyRows)}

KeyGroupByInputs == {<<"r">>, <<"p">>, <<"r", ",", "p">>, <<"p", ",", " ", "r">>}

\* columns of one kind of cell each, with empty cells
InspectColumnsOfLen(n) ==
    [1..n -> {RawInt(1), RawInt(2), RawEmpty}]
    \cup [1..n -> {A, B, RawEmpty}]
    \cup [1..n -> {RawBool(0), RawBool(1), RawEmpty}]
    \cup [1..n -> {RawBig(0), RawBig(1)}]

InspectEntries ==
    UNION {{CsvFile(<<<<"a">>, <<"b">>>>, [i \in 1..n |-> <<ca[i], cb[i]>>]) :
                ca \in InspectColumnsOfLen(n), cb \in InspectColumnsOfLen(n)} :
           n \in 0..MaxInspectRows}

(***************************************************************************)
(* Actions: one per tool call, and the delivery of the envelope            *)
(***************************************************************************)
Idle == [kind |-> "none"]

NoRequest == [op |-> "none"]

InitWith(entries) ==
    /\ fs \in {FileSystem(e) : e \in entries}
    /\ req = NoRequest
    /\ resp = Idle
    /\ calls = <<>>

ReadCsv(file_path) ==
    /\ resp = Idle
    /\ LET out == read_csv(fs, file_path) IN
        /\ resp' = out.ret
        /\ calls' = out.calls
    /\ req' = [op |-> "read_csv", file_path |-> file_path]
    /\ UNCHANGED fs

AggregateCsv(file_path, group_by, agg_column, agg_function) ==
    /\ resp = Idle
    /\ LET out == aggregate_csv(fs, file_path, group_by, agg_column, agg_function) IN
        /\ resp' = out.ret
        /\ calls' = out.calls
    /\ req' = [op |-> "aggregate_csv", file_path |-> file_path, group_by |-> group_by,
               agg_column |-> agg_column, agg_function |-> agg_function]
    /\ UNCHANGED fs

\* the envelope goes back to the caller; nothing of the call is kept
Deliver ==
    /\ resp # Idle
    /\ req' = NoRequest
    /\ resp' = Idle
    /\ calls' = <<>>
    /\ UNCHANGED fs

Init == InitWith(MainEntries)

Next ==
    \/ \E file_path \in Paths : ReadCsv(file_path)
    \/ /\ resp = Idle
       /\ \E file_path \in Paths, group_by \in GroupByInputs,
             agg_column \in AggColumnInputs, agg_function \in FunctionInputs :
               AggregateCsv(file_path, group_by, agg_column, agg_function)
    \/ Deliver

Spec == Init /\ [][Next]_vars

\* the validation, on every group_by string
InitValidate == InitWith(ValidateEntries)

NextValidate ==
    \/ /\ resp = Idle
       /\ \E group_by \in AllGroupByInputs, agg_column \in {ColS, ColY},
             agg_function \in {<<"S", "u", "m">>, <<"a", "v", "g">>} :
               AggregateCsv(DataPath, group_by, agg_column, agg_function)
    \/ Deliver

SpecValidate == InitValidate /\ [][NextValidate]_vars

\* the aggregation, on every table of two columns
InitAgg == InitWith(AggEntries)

NextAgg ==
    \/ /\ resp = Idle
       /\ \E agg_function \in ValidFunctions :
               AggregateCsv(DataPath, ColR, ColS, agg_function)
    \/ Deliver

SpecAgg == InitAgg /\ [][NextAgg]_vars

\* grouping by two columns
InitKeys == InitWith(KeyEntries)

NextKeys ==
    \/ /\ resp = Idle
       /\ \E group_by \in KeyGroupByInputs, agg_column \in {ColS, ColR},
             agg_function \in {FnCount, FnMin} :
               AggregateCsv(DataPath, group_by, agg_column, agg_function)
    \/ Deliver

SpecKeys == InitKeys /\ [][NextKeys]_vars

\* inspection, on columns of every inferred type
InitInspect == InitWith(InspectEntries)

NextInspect ==
    \/ \E file_path \in Paths : ReadCsv(file_path)
    \/ Deliver

SpecInspect == InitInspect /\ [][NextInspect]_vars

(***************************************************************************)
(* Claims                                                                  *)
(***************************************************************************)
IsAggregate == req.op = "aggregate_csv"

Succeeded == resp.kind = "return" /\ resp.value.success

Failed == resp.kind = "return" /\ ~resp.value.success

ReqFile == fs[req.file_path]

HeaderNames == {ReqFile.header[j] : j \in 1..Len(ReqFile.header)}

CallSet == {calls[i] : i \in 1..Len(calls)}

PayloadFields == {"file_info", "preview", "statistics", "schema", "results"}

FullPayload(op) ==
    IF op = "read_csv" THEN {"file_info", "preview", "statistics", "schema", "metadata"}
    ELSE {"file_info", "aggregation", "results", "metadata"}

\* C1: every call of read_csv and aggregate_csv returns one envelope and raises
\* nothing; the envelope has success=true and the full payload and no error, or
\* success=false, an error message and no payload field.
C1_OneEnvelope ==
    req.op # "none" =>
        /\ resp.kind = "return"
        /\ \/ /\ resp.value.success = TRUE
              /\ FullPayload(req.op) \subseteq DOMAIN resp.value
              /\ "error" \notin DOMAIN resp.value
           \/ /\ resp.value.success = FALSE
              /\ "error" \in DOMAIN resp.value
              /\ DOMAIN resp.value \cap PayloadFields = {}

\* an aggregation of a file that cannot be decoded, answered by an error envelope
C1_Witness ==
    /\ IsAggregate
    /\ ReqFile.kind = "undecodable"
    /\ Failed
    /\ resp.value.exception_type = "UnicodeDecodeError"

OnlySeparators(group_by) ==
    \A i \in 1..Len(group_by) : group_by[i] \in {","} \cup Whitespace

\* the message of the lowest-numbered check the request violates, "" if none
FirstViolation(group_by, agg_column, agg_function) ==
    LET gc == GroupColumns(group_by) IN
    IF OnlySeparators(group_by) THEN NoGroupByText
    ELSE IF \E k \in 1..Len(gc) : gc[k] \notin HeaderNames THEN ColumnsMissingText
    ELSE IF agg_column \notin HeaderNames THEN ColumnMissingText
    ELSE IF Lower(agg_function) \notin ValidFunctions THEN InvalidFunctionText
    ELSE ""

\* C2: once the table is loaded, the error returned is that of the first violated
\* check in the order group-by list non-empty, group-by columns exist, target
\* column exists, function (case-insensitive) valid; no aggregation runs then.
C2_ValidationOrder ==
    (IsAggregate /\ ReqFile.kind = "csv") =>
        LET first == FirstViolation(req.group_by, req.agg_column, req.agg_function) IN
        first # "" =>
            /\ Failed
            /\ resp.value.error.text = first
            /\ "exception_type" \notin DOMAIN resp.value
            /\ "groupby.agg" \notin CallSet

\* a request that violates checks 2, 3 and 4 at once and gets the error of check 2
C2_Witness ==
    /\ IsAggregate
    /\ ReqFile.kind = "csv"
    /\ req.agg_column \notin HeaderNames
    /\ Lower(req.agg_function) \notin ValidFunctions
    /\ Failed
    /\ resp.value.error.text = ColumnsMissingText

RawRows == ReqFile.rows

RECURSIVE SumSizes(_)
SumSizes(groups) ==
    IF groups = <<>> THEN 0 ELSE groups[1].group_size + SumSizes(Tail(groups))

\* C3: on success the group_size values of grouped_data add up to the table's row
\* count, also with nulls in a group-by column.
C3_GroupSizesCoverRows ==
    (IsAggregate /\ Succeeded) =>
        SumSizes(resp.value.results.grouped_data) = Len(RawRows)

TargetIndex == CHOOSE j \in 1..Len(ReqFile.header) : ReqFile.header[j] = req.agg_column

NonNullTargets == {i \in 1..Len(RawRows) : RawRows[i][TargetIndex] # RawEmpty}

IsCountCall == IsAggregate /\ Succeeded /\ Lower(req.agg_function) = FnCount

RawKeyToken(raw) ==
    IF raw = RawEmpty THEN <<"json_NaN", 0, 1>>
    ELSE IF raw[1] = "str" THEN <<"json_str", raw[2], 1>>
    ELSE <<"json_float", raw[2], 1>>

GroupIndex == CHOOSE j \in 1..Len(ReqFile.header) : ReqFile.header[j] = ColR

RowsWithKey(token) == {i \in 1..Len(RawRows) : RawKeyToken(RawRows[i][GroupIndex]) = token}

TargetCells == Column(ParseTable(ReqFile.header, RawRows), req.agg_column)

TargetDtype == Dtype(ParseTable(ReqFile.header, RawRows), req.agg_column)

\* C5: on success the rows are partitioned by their group-by value: every row's
\* key has exactly one group, whose group_size is the number of rows with that
\* key and whose value is the function over exactly those rows' target values;
\* the overall value is the function over the whole target column, total_records
\* the row count and groups_count the number of groups.
C5_GroupsPartitionRows ==
    (IsAggregate /\ Succeeded) =>
        LET gd == resp.value.results.grouped_data
            stats == resp.value.results.overall_statistics
            fn == Lower(req.agg_function)
        IN /\ \A i \in 1..Len(RawRows) :
                Cardinality({g \in 1..Len(gd) :
                    gd[g].key = <<RawKeyToken(RawRows[i][GroupIndex])>>}) = 1
           /\ \A g \in 1..Len(gd) :
                /\ RowsWithKey(gd[g].key[1]) # {}
                /\ gd[g].group_size = Cardinality(RowsWithKey(gd[g].key[1]))
                /\ gd[g].value = JsonEncode(Box(Reduce(fn, TargetDtype,
                                    PickRows(TargetCells, RowsWithKey(gd[g].key[1]), 1))))
           /\ stats.overall.value = JsonEncode(Float(Reduce(fn, TargetDtype, TargetCells)))
           /\ stats.total_records = Len(RawRows)
           /\ stats.groups_count = Len(gd)

AbsentFromFile(c) == c \notin HeaderNames

\* C6: when group-by columns are absent the error names all of them, in group-by
\* order, and none that is present; when they all exist and the target column is
\* absent the error names the target column.
C6_MissingColumnsNamed ==
    (IsAggregate /\ ReqFile.kind = "csv" /\ GroupColumns(req.group_by) # <<>>) =>
        LET gc == GroupColumns(req.group_by) IN
        IF \E k \in 1..Len(gc) : AbsentFromFile(gc[k])
        THEN /\ Failed
             /\ resp.value.error.text = ColumnsMissingText
             /\ resp.value.error.args[1] = SelectSeq(gc, AbsentFromFile)
        ELSE AbsentFromFile(req.agg_column) =>
             /\ Failed
             /\ resp.value.error.text = ColumnMissingText
             /\ resp.value.error.args[1] = req.agg_column

\* three group-by columns, the middle one present: the error names the other two
C6_Witness ==
    /\ IsAggregate
    /\ ReqFile.kind = "csv"
    /\ GroupColumns(req.group_by) = <<ColY, ColR, ColX>>
    /\ ColR \in HeaderNames
    /\ Failed
    /\ resp.value.error.args[1] = <<ColY, ColX>>

\* C7: a path that does not exist gives the not-found envelope and a path that is
\* no regular file the not-a-file envelope, each with the path, in both tools and
\* whatever the other arguments; pd.read_csv is not called.
C7_PathChecksBeforeParsing ==
    req.op # "none" =>
        /\ ReqFile.kind = "missing" =>
            /\ resp = Ret(ErrorEnvelope(NotExistText, <<req.file_path>>))
            /\ "pd.read_csv" \notin CallSet
        /\ ReqFile.kind = "dir" =>
            /\ resp = Ret(ErrorEnvelope(NotAFileText, <<req.file_path>>))
            /\ "pd.read_csv" \notin CallSet

\* an aggregation of a directory with an empty group-by list, an absent target
\* column and an unknown function
C7_Witness ==
    /\ IsAggregate
    /\ req.file_path = DataPath
    /\ ReqFile.kind = "dir"
    /\ req.group_by = <<" ">>
    /\ req.agg_column = ColX
    /\ req.agg_function = <<"a", "v", "g">>
    /\ Failed
    /\ resp.value.error.text = NotAFileText

\* the key values whose rows all have a null target value
AllNullKeys ==
    {k \in {1, 2} :
        /\ RowsWithKey(<<"json_str", k, 1>>) # {}
        /\ \A i \in RowsWithKey(<<"json_str", k, 1>>) : RawRows[i][TargetIndex] = RawEmpty}

GroupOfKey(k) ==
    LET gd == resp.value.results.grouped_data IN
    {g \in 1..Len(gd) : gd[g].key = <<<<"json_str", k, 1>>>>}

IsIntegerOrFloat(type) == type \in {"int64", "uint64", "float64"}

\* C9: on success the schema has exactly one entry per column of the table, and
\* the numeric statistics have an entry for exactly the columns whose inferred
\* type is integer or floating-point.
C9_NumericStatsCoverNumericColumns ==
    (req.op = "read_csv" /\ Succeeded) =>
        LET schema == resp.value.schema.columns
            stats == resp.value.statistics.numeric_columns
        IN /\ DOMAIN schema = HeaderNames
           /\ DOMAIN stats = {c \in HeaderNames : IsIntegerOrFloat(schema[c].type)}

TokenKeyLess(a, b) ==
    \E k \in 1..Len(a) : a[k][2] < b[k][2] /\ \A j \in 1..(k - 1) : a[j][2] = b[j][2]

\* C10: the groups of grouped_data are in ascending order of their key tuples,
\* compared column by column in group-by order, whatever the order of the rows in
\* the file; the merge that attaches group_size keeps that order.
C10_GroupsAscending ==
    (IsAggregate /\ Succeeded) =>
        LET gd == resp.value.results.grouped_data IN
        \A g, h \in 1..Len(gd) : g < h => TokenKeyLess(gd[g].key, gd[h].key)

\* three groups by (r, p), the first two tied on r, from a file whose rows are in
\* descending key order
C10_Witness ==
    /\ IsAggregate
    /\ Succeeded
    /\ GroupColumns(req.group_by) = <<ColR, ColP>>
    /\ Len(resp.value.results.grouped_data) = 3
    /\ resp.value.results.grouped_data[1].key[1] = resp.value.results.grouped_data[2].key[1]
    /\ RawRows = <<<<B, RawInt(1), RawInt(10)>>, <<A, RawInt(2), RawInt(10)>>,
                   <<A, RawInt(1), RawInt(10)>>>>

====
